---------------------------- MODULE Spec2Model ----------------------------
(***************************************************************************)
(* Model of Auto_Fill_In/llm-extraction-system.py: the DataFormatter       *)
(* normalizers, the row selector and writer of ExcelProcessor, the reply   *)
(* parser of LlmProcessor and the row loop of ExtractionSystem.run.        *)
(*                                                                         *)
(* Text is a sequence of one-character strings.  A Python value is a       *)
(* record [t, s, items]: t is the type tag, s the text of a scalar, items  *)
(* the elements of a list or the entries of a dict.                        *)
(***************************************************************************)
EXTENDS Integers, Sequences, FiniteSets, TLC

----------------------------------------------------------------------------
(* Characters and text                                                     *)

DigitSeq == <<"0", "1", "2", "3", "4", "5", "6", "7", "8", "9">>

LowerSeq == <<"a", "b", "c", "d", "e", "f", "g", "h", "i", "j", "k", "l", "m",
              "n", "o", "p", "q", "r", "s", "t", "u", "v", "w", "x", "y", "z">>

UpperSeq == <<"A", "B", "C", "D", "E", "F", "G", "H", "I", "J", "K", "L", "M",
              "N", "O", "P", "Q", "R", "S", "T", "U", "V", "W", "X", "Y", "Z">>

Range(f) == {f[i] : i \in DOMAIN f}

\* body(v): the value v, computed once, under the name body gives it
With(v, body(_)) == body(v)

Digits == Range(DigitSeq)

Letters == Range(LowerSeq) \cup Range(UpperSeq)

\* \w of the re module, on the ASCII part of the alphabet
WordChars == Digits \cup Letters \cup {"_"}

\* what str.strip() removes and what \s matches
WhiteSpace == {" ", "\t", "\n", "\r"}

DigitVal(c) == (CHOOSE i \in DOMAIN DigitSeq : DigitSeq[i] = c) - 1

\* str.lower() on one character
LowerCh(c) ==
  IF c \in Range(UpperSeq)
  THEN LowerSeq[CHOOSE i \in DOMAIN UpperSeq : UpperSeq[i] = c]
  ELSE c

\* str.lower()
Lower(s) == [i \in DOMAIN s |-> LowerCh(s[i])]

\* s[i:] of Python, with i a 1-based position
From(s, i) == SubSeq(s, i, Len(s))

\* str.strip()
Strip(s) ==
  IF \A i \in DOMAIN s : s[i] \in WhiteSpace
  THEN <<>>
  ELSE LET a == CHOOSE i \in DOMAIN s :
                  /\ s[i] \notin WhiteSpace
                  /\ \A j \in 1..(i - 1) : s[j] \in WhiteSpace
           b == CHOOSE i \in DOMAIN s :
                  /\ s[i] \notin WhiteSpace
                  /\ \A j \in (i + 1)..Len(s) : s[j] \in WhiteSpace
       IN SubSeq(s, a, b)

\* the number of consecutive characters of class cls in s from position i on:
\* what a greedy cls* consumes there
RunLen(s, i, cls) ==
  IF i > Len(s) \/ s[i] \notin cls
  THEN 0
  ELSE LET stops == {j \in i..Len(s) : s[j] \notin cls}
       IN IF stops = {} THEN Len(s) - i + 1
          ELSE (CHOOSE j \in stops : \A k \in stops : j <= k) - i

\* whether the literal text lit stands in s at position i
HasAt(s, i, lit) ==
  /\ i >= 1
  /\ i + Len(lit) - 1 <= Len(s)
  /\ \A k \in DOMAIN lit : s[i + k - 1] = lit[k]

\* str.isdigit()
IsDigitStr(s) == s # <<>> /\ \A i \in DOMAIN s : s[i] \in Digits

\* int() of a digit string
RECURSIVE IntOf(_)
IntOf(s) ==
  IF s = <<>> THEN 0
  ELSE 10 * IntOf(SubSeq(s, 1, Len(s) - 1)) + DigitVal(s[Len(s)])

\* the decimal text of n >= 0, zero-padded to at least w characters ("%0wd")
RECURSIVE Pad(_, _)
Pad(n, w) ==
  IF n < 10 /\ w <= 1 THEN <<DigitSeq[n + 1]>>
  ELSE Pad(n \div 10, w - 1) \o <<DigitSeq[(n % 10) + 1]>>

----------------------------------------------------------------------------
(* Python values                                                           *)

PyNone == [t |-> "none", s |-> <<>>, items |-> <<>>]

\* float('nan'): what pandas gives for an empty cell and json.loads for NaN
PyNaN == [t |-> "nan", s |-> <<>>, items |-> <<>>]

PyStr(text) == [t |-> "str", s |-> text, items |-> <<>>]

\* an int, by its decimal text
PyInt(text) == [t |-> "int", s |-> text, items |-> <<>>]

\* a float, by the literal it was read from (str() of it is modelled as that
\* literal, which is exact for a literal in shortest form such as 1.5)
PyFloat(text) == [t |-> "float", s |-> text, items |-> <<>>]

PyBool(b) == [t |-> "bool", s |-> IF b THEN <<"T", "r", "u", "e">>
                                   ELSE <<"F", "a", "l", "s", "e">>,
              items |-> <<>>]

PyList(elems) == [t |-> "list", s |-> <<>>, items |-> elems]

\* one key: value entry of a dict
Entry(key, value) == [t |-> "entry", s |-> key, items |-> <<value>>]

KeyOf(e) == e.s

ValOf(e) == e.items[1]

\* a dict, by its entries in insertion order
PyDict(entries) == [t |-> "dict", s |-> <<>>, items |-> entries]

\* bool(v), the truth value an `if v` tests
Truthy(v) ==
  CASE v.t = "none" -> FALSE
    [] v.t = "nan" -> TRUE
    [] v.t = "str" -> v.s # <<>>
    [] v.t = "int" -> \E i \in DOMAIN v.s : v.s[i] \in Digits \ {"0"}
    [] v.t = "float" ->
         \/ v.s \in {<<"i", "n", "f">>, <<"-", "i", "n", "f">>}
         \/ \E i \in DOMAIN v.s :
              /\ v.s[i] \in Digits \ {"0"}
              /\ \A j \in 1..i : v.s[j] \notin {"e", "E"}
    [] v.t = "bool" -> v.s[1] = "T"
    [] OTHER -> v.items # <<>>

\* ", ".join(parts)
RECURSIVE JoinComma(_)
JoinComma(parts) ==
  IF parts = <<>> THEN <<>>
  ELSE IF Len(parts) = 1 THEN parts[1]
  ELSE parts[1] \o <<",", " ">> \o JoinComma(Tail(parts))

\* repr(v) and str(v); they differ on a str only (text without quotes or
\* backslashes, which the alphabets of the inputs do not hold)
RECURSIVE Repr(_)
Repr(v) ==
  CASE v.t = "none" -> <<"N", "o", "n", "e">>
    [] v.t = "nan" -> <<"n", "a", "n">>
    [] v.t = "str" -> <<"'">> \o v.s \o <<"'">>
    [] v.t = "list" ->
         <<"[">> \o JoinComma([i \in DOMAIN v.items |-> Repr(v.items[i])]) \o <<"]">>
    [] v.t = "dict" ->
         <<"{">> \o JoinComma([i \in DOMAIN v.items |->
                      <<"'">> \o KeyOf(v.items[i]) \o <<"'", ":", " ">>
                        \o Repr(ValOf(v.items[i]))]) \o <<"}">>
    [] OTHER -> v.s

StrOf(v) == IF v.t = "str" THEN v.s ELSE Repr(v)

\* The truth value of pd.isna(v) where the code tests it: "yes", "no", or
\* "raise".  On a list pd.isna works element by element and the test takes the
\* truth value of an array: that of its only element, and a ValueError for any
\* other length (NumPy 2.2 and later; the empty array is falsy with a
\* deprecation warning before that).
RECURSIVE IsNa(_)
IsNa(v) ==
  CASE v.t \in {"none", "nan"} -> "yes"
    [] v.t = "list" -> IF Len(v.items) # 1 THEN "raise" ELSE IsNa(v.items[1])
    [] OTHER -> "no"

\* the outcome of a call: a returned text, or an exception
Returned(text) == [raised |-> FALSE, val |-> text]

Raised == [raised |-> TRUE, val |-> <<>>]

----------------------------------------------------------------------------
(* DataFormatter.format_date                                               *)

\* date_formats, in the order the code tries them; a format is the sequence of
\* its directives and literal characters
date_formats ==
  <<
     <<"%Y", "-", "%m", "-", "%d">>,
     <<"%d", " ", "%B", " ", "%Y">>,
     <<"%d", " ", "%b", " ", "%Y">>,
     <<"%B", " ", "%d", ",", " ", "%Y">>,
     <<"%b", " ", "%d", ",", " ", "%Y">>,
     <<"%d", ".", "%m", ".", "%Y">>,
     <<"%d", "/", "%m", "/", "%Y">>,
     <<"%m", "/", "%d", "/", "%Y">>,
     <<"%Y", "/", "%m", "/", "%d">>,
     <<"%d", " ", "%B", ",", " ", "%Y">>,
     <<"%d", " ", "%b", ",", " ", "%Y">>,
     <<"%d", ".", "%B", ".", "%Y">>,
     <<"%d", ".", "%b", ".", "%Y">>,
     <<"%d", " ", "%B">>,
     <<"%d", " ", "%b">>,
     <<"%B", " ", "%d">>,
     <<"%b", " ", "%d">>,
     <<"%d", "t", "h", " ", "o", "f", " ", "%B", ",", " ", "%Y">>,
     <<"%d", "t", "h", " ", "o", "f", " ", "%B", " ", "%Y">>,
     <<"%d", "s", "t", " ", "o", "f", " ", "%B", " ", "%Y">>,
     <<"%d", "n", "d", " ", "o", "f", " ", "%B", " ", "%Y">>,
     <<"%d", "r", "d", " ", "o", "f", " ", "%B", " ", "%Y">>,
     <<"%d", "t", "h", " ", "o", "f", " ", "%b", ",", " ", "%Y">>,
     <<"%d", "t", "h", " ", "o", "f", " ", "%b", " ", "%Y">>,
     <<"%d", "s", "t", " ", "o", "f", " ", "%b", " ", "%Y">>,
     <<"%d", "n", "d", " ", "o", "f", " ", "%b", " ", "%Y">>,
     <<"%d", "r", "d", " ", "o", "f", " ", "%b", " ", "%Y">>,
     <<"%d", ".", "%m", ".", "%y">>,
     <<"%d", "/", "%m", "/", "%y">>,
     <<"%m", "/", "%d", "/", "%y">>,
     <<"%y", "/", "%m", "/", "%d">>
  >>

\* the month names strptime knows (%B) and their abbreviations (%b), lower case
MonthFull ==
  <<
     <<"j", "a", "n", "u", "a", "r", "y">>,
     <<"f", "e", "b", "r", "u", "a", "r", "y">>,
     <<"m", "a", "r", "c", "h">>,
     <<"a", "p", "r", "i", "l">>,
     <<"m", "a", "y">>,
     <<"j", "u", "n", "e">>,
     <<"j", "u", "l", "y">>,
     <<"a", "u", "g", "u", "s", "t">>,
     <<"s", "e", "p", "t", "e", "m", "b", "e", "r">>,
     <<"o", "c", "t", "o", "b", "e", "r">>,
     <<"n", "o", "v", "e", "m", "b", "e", "r">>,
     <<"d", "e", "c", "e", "m", "b", "e", "r">>
  >>

MonthAbbr == [k \in DOMAIN MonthFull |-> SubSeq(MonthFull[k], 1, 3)]

IsLeap(y) == (y % 4 = 0 /\ y % 100 # 0) \/ y % 400 = 0

DaysInMonth(m, y) ==
  CASE m = 2 -> IF IsLeap(y) THEN 29 ELSE 28
    [] m \in {4, 6, 9, 11} -> 30
    [] OTHER -> 31

\* The text one directive of strptime consumes in s at position i: its length
\* (0 when the directive does not match there).  A directive is a regular
\* expression with ordered alternatives; every directive of date_formats is
\* followed by a literal that is no digit or by the end of the format, so the
\* first alternative that matches is the one a match of the whole format uses.
DirectiveLen(s, i, tok) ==
  LET dig(k) == i + k <= Len(s) /\ s[i + k] \in Digits
      in(k, set) == i + k <= Len(s) /\ s[i + k] \in set
      names == IF tok = "%B" THEN MonthFull ELSE MonthAbbr
      hits == {k \in DOMAIN names : HasAt(Lower(s), i, names[k])}
  IN CASE tok = "%Y" -> IF dig(0) /\ dig(1) /\ dig(2) /\ dig(3) THEN 4 ELSE 0
       [] tok = "%y" -> IF dig(0) /\ dig(1) THEN 2 ELSE 0
       [] tok = "%m" ->
            IF \/ in(0, {"1"}) /\ in(1, {"0", "1", "2"})
               \/ in(0, {"0"}) /\ in(1, Digits \ {"0"})
            THEN 2
            ELSE IF in(0, Digits \ {"0"}) THEN 1 ELSE 0
       [] tok = "%d" ->
            IF \/ in(0, {"3"}) /\ in(1, {"0", "1"})
               \/ in(0, {"1", "2"}) /\ dig(1)
               \/ in(0, {"0"}) /\ in(1, Digits \ {"0"})
            THEN 2
            ELSE IF in(0, Digits \ {"0"}) THEN 1
            ELSE IF in(0, {" "}) /\ in(1, Digits \ {"0"}) THEN 2
            ELSE 0
       [] tok \in {"%B", "%b"} ->
            IF hits = {} THEN 0
            ELSE Len(names[CHOOSE k \in hits : \A h \in hits : Len(names[k]) >= Len(names[h])])
       [] OTHER -> 0

\* the fields a directive sets, given the text it consumed
DirectiveSet(acc, s, i, n, tok) ==
  LET txt == SubSeq(s, i, i + n - 1)
      num == IntOf(SelectSeq(txt, LAMBDA c : c \in Digits))
      names == IF tok = "%B" THEN MonthFull ELSE MonthAbbr
  IN CASE tok = "%Y" -> [acc EXCEPT !.y = num]
       [] tok = "%y" -> [acc EXCEPT !.y = IF num <= 68 THEN 2000 + num ELSE 1900 + num]
       [] tok = "%m" -> [acc EXCEPT !.m = num]
       [] tok = "%d" -> [acc EXCEPT !.d = num]
       [] OTHER -> [acc EXCEPT !.m = CHOOSE k \in DOMAIN names : Lower(txt) = names[k]]

\* datetime.strptime(s, fmt) from position i of s and token j of fmt on: the
\* format is matched as a case-insensitive pattern in which white space stands
\* for \s+, and all of s must be consumed ("unconverted data remains")
RECURSIVE StrpFrom(_, _, _, _, _)
StrpFrom(s, i, fmt, j, acc) ==
  IF j > Len(fmt)
  THEN [acc EXCEPT !.ok = (i = Len(s) + 1)]
  ELSE LET tok == fmt[j]
       IN IF Len(tok) = 2
          THEN With(DirectiveLen(s, i, tok), LAMBDA n :
                 IF n = 0 THEN [acc EXCEPT !.ok = FALSE]
                 ELSE StrpFrom(s, i + n, fmt, j + 1, DirectiveSet(acc, s, i, n, tok)))
          ELSE IF tok \in WhiteSpace
          THEN With(RunLen(s, i, WhiteSpace), LAMBDA n :
                 IF n = 0 THEN [acc EXCEPT !.ok = FALSE]
                 ELSE StrpFrom(s, i + n, fmt, j + 1, acc))
          ELSE IF i <= Len(s) /\ LowerCh(s[i]) = LowerCh(tok)
          THEN StrpFrom(s, i + 1, fmt, j + 1, acc)
          ELSE [acc EXCEPT !.ok = FALSE]

\* datetime.strptime(s, fmt): [ok, y, m, d], ok = FALSE for a ValueError (no
\* match, or no such day); the fields default to 1900-01-01
strptime(s, fmt) ==
  With(StrpFrom(s, 1, fmt, 1, [ok |-> TRUE, y |-> 1900, m |-> 1, d |-> 1]), LAMBDA r :
    [r EXCEPT !.ok = r.ok /\ r.y >= 1 /\ r.d <= DaysInMonth(r.m, r.y)])

\* a strftime that writes the day first, as '%d.%m.%Y' would
strftime_day_first(y, m, d) == Pad(d, 2) \o <<".">> \o Pad(m, 2) \o <<".">> \o Pad(y, 4)

\* date_obj.strftime('%Y-%m-%d')
strftime(y, m, d) == Pad(y, 4) \o <<"-">> \o Pad(m, 2) \o <<"-">> \o Pad(d, 2)

HasYear(fmt) == \E j \in DOMAIN fmt : fmt[j] \in {"%Y", "%y"}

FourDigitsAt(s, i) == i + 3 <= Len(s) /\ \A k \in 0..3 : s[i + k] \in Digits

\* f"{day} {month} {year}"
DayMonthYear(day, month, year) == day \o <<" ">> \o month \o <<" ">> \o year

NoMatch == [hit |-> FALSE, day |-> <<>>, month |-> <<>>, year |-> <<>>]

\* The groups of a match that starts with digits at position 1, then one of
\* the texts of seps1, then a run of word characters, then one of the texts of
\* seps2 (the longest that fits: an optional character is greedy), then four
\* digits.  Each run is the whole run: the character after it must begin the
\* separator, which no digit or word character does.
MatchDayMonthYear(s, seps1, seps2) ==
  LET nd == RunLen(s, 1, Digits)
      fit1 == {x \in seps1 : HasAt(s, 1 + nd, x)}
  IN IF nd = 0 \/ fit1 = {} THEN NoMatch
     ELSE LET sep1 == CHOOSE x \in fit1 : TRUE
              ms == 1 + nd + Len(sep1)
              nm == RunLen(s, ms, WordChars)
              fit2 == {x \in seps2 : HasAt(s, ms + nm, x)
                                     /\ FourDigitsAt(s, ms + nm + Len(x))}
          IN IF nm = 0 \/ fit2 = {} THEN NoMatch
             ELSE LET sep2 == CHOOSE x \in fit2 : \A z \in fit2 : Len(x) >= Len(z)
                      ys == ms + nm + Len(sep2)
                  IN [hit |-> TRUE,
                      day |-> SubSeq(s, 1, nd),
                      month |-> SubSeq(s, ms, ms + nm - 1),
                      year |-> SubSeq(s, ys, ys + 3)]

\* re.match(r'(\d+)(?:st|nd|rd|th) of (\w+),? (\d{4})', s)
special_format(s) ==
  MatchDayMonthYear(s,
    {<<"s", "t", " ", "o", "f", " ">>, <<"n", "d", " ", "o", "f", " ">>,
     <<"r", "d", " ", "o", "f", " ">>, <<"t", "h", " ", "o", "f", " ">>},
    {<<",", " ">>, <<" ">>})

\* re.match(r'(\d+)\.(\w+)\.(\d{4})', s)
dot_format(s) == MatchDayMonthYear(s, {<<".">>}, {<<".">>})

\* re.match(r'(\d+) (\w+), (\d{4})', s)
comma_format(s) == MatchDayMonthYear(s, {<<" ">>}, {<<",", " ">>})

\* one rewrite: date_str = f"{day} {month} {year}" when the pattern matches
Rewrite(m, s) == IF m.hit THEN DayMonthYear(m.day, m.month, m.year) ELSE s

\* re.search(r'(\w+) (\d+) (\w+) (\d{4})', s) tried at position p
WeekdayAt(s, p) ==
  LET n1 == RunLen(s, p, WordChars)
      q == p + n1 + 1
      nd == RunLen(s, q, Digits)
      r == q + nd + 1
      n3 == RunLen(s, r, WordChars)
      ys == r + n3 + 1
  IN IF /\ n1 > 0 /\ HasAt(s, p + n1, <<" ">>)
        /\ nd > 0 /\ HasAt(s, q + nd, <<" ">>)
        /\ n3 > 0 /\ HasAt(s, r + n3, <<" ">>)
        /\ FourDigitsAt(s, ys)
     THEN [hit |-> TRUE, day |-> SubSeq(s, q, q + nd - 1),
           month |-> SubSeq(s, r, r + n3 - 1), year |-> SubSeq(s, ys, ys + 3)]
     ELSE NoMatch

\* re.search: the match at the leftmost position that has one
weekday_pattern(s) ==
  LET starts == {p \in DOMAIN s : WeekdayAt(s, p).hit}
  IN IF starts = {} THEN NoMatch
     ELSE WeekdayAt(s, CHOOSE p \in starts : \A z \in starts : p <= z)

\* the loop over date_formats from format k on: the first format that parses
\* gives the result; a format without a year takes the current year
RECURSIVE TryFormats(_, _, _, _)
TryFormats(s, fmts, k, year_now) ==
  IF k > Len(fmts) THEN [ok |-> FALSE, val |-> <<>>]
  ELSE With(strptime(s, fmts[k]), LAMBDA r :
         IF r.ok
         THEN [ok |-> TRUE,
               val |-> strftime(IF HasYear(fmts[k]) THEN r.y ELSE year_now, r.m, r.d)]
         ELSE TryFormats(s, fmts, k + 1, year_now))

\* the formats of the weekday fallback
weekday_formats ==
  <<
     <<"%d", " ", "%B", " ", "%Y">>,
     <<"%d", " ", "%b", " ", "%Y">>
  >>

\* the three regex rewrites, applied in turn to the stripped text
Rewritten(s0) ==
  With(Rewrite(special_format(s0), s0), LAMBDA s1 :
    With(Rewrite(dot_format(s1), s1), LAMBDA s2 :
      Rewrite(comma_format(s2), s2)))

\* the attempts to parse the rewritten text: the loop over date_formats, then
\* the weekday fallback; [ok, val]
ParseDate(s, year_now) ==
  With(TryFormats(s, date_formats, 1, year_now), LAMBDA first :
    IF first.ok THEN first
    ELSE With(weekday_pattern(s), LAMBDA w :
           IF w.hit
           THEN TryFormats(DayMonthYear(w.day, w.month, w.year), weekday_formats, 1,
                           year_now)
           ELSE first))

\* DataFormatter.format_date(date_str), in the year year_now
format_date(v, year_now) ==
  IF ~Truthy(v) THEN Returned(<<>>)
  ELSE IF IsNa(v) = "raise" THEN Raised
  ELSE IF IsNa(v) = "yes" THEN Returned(<<>>)
  ELSE With(Rewritten(Strip(StrOf(v))), LAMBDA date_str :
         With(ParseDate(date_str, year_now), LAMBDA parsed :
           IF parsed.ok THEN Returned(parsed.val) ELSE Returned(date_str)))

----------------------------------------------------------------------------
(* DataFormatter.normalize_value and DataFormatter.process_results         *)

\* normalize_value with its last branch returning the text instead of "1"
normalize_value_keeping_text(v) ==
  IF IsNa(v) = "raise" THEN Raised
  ELSE IF IsNa(v) = "yes" \/ (v.t = "str" /\ v.s = <<>>) THEN Returned(<<>>)
  ELSE With(Lower(Strip(StrOf(v))), LAMBDA value_str :
         IF value_str \in {<<"y", "e", "s">>, <<"y">>, <<"t", "r", "u", "e">>, <<"1">>}
         THEN Returned(<<"1">>)
         ELSE IF value_str \in {<<"n", "o">>, <<"n">>, <<"f", "a", "l", "s", "e">>, <<"0">>}
         THEN Returned(<<>>)
         ELSE IF value_str # <<"n", "a", "n">> THEN Returned(value_str)
         ELSE Returned(<<>>))

\* DataFormatter.normalize_value(value)
normalize_value(v) ==
  IF IsNa(v) = "raise" THEN Raised
  ELSE IF IsNa(v) = "yes" \/ (v.t = "str" /\ v.s = <<>>) THEN Returned(<<>>)
  ELSE With(Lower(Strip(StrOf(v))), LAMBDA value_str :
         IF value_str \in {<<"y", "e", "s">>, <<"y">>, <<"t", "r", "u", "e">>, <<"1">>}
         THEN Returned(<<"1">>)
         ELSE IF value_str \in {<<"n", "o">>, <<"n">>, <<"f", "a", "l", "s", "e">>, <<"0">>}
         THEN Returned(<<>>)
         ELSE IF value_str # <<>> /\ value_str # <<"n", "a", "n">>
         THEN IF IsDigitStr(value_str) THEN Returned(value_str)
              ELSE Returned(<<"1">>)
         ELSE Returned(<<>>))

category_fields ==
  {
     <<"M", "a", "s", "t", "e", "r", " ", "S", "t", "u", "d", "e", "n", "t">>,
     <<"D", "o", "c", "t", "o", "r", "a", "l", " ", "S", "t", "u", "d", "e", "n", "t">>,
     <<"P", "o", "s", "t", "D", "o", "c">>,
     <<"R", "e", "s", "e", "a", "r", "c", "h", " ", "A", "s", "s", "i", "s", "t", "a", "n", "t">>,
     <<"C", "o", "m", "p", "e", "t", "i", "t", "i", "o", "n">>,
     <<"S", "u", "m", "m", "e", "r", " ", "S", "c", "h", "o", "o", "l">>,
     <<"C", "o", "n", "f", "e", "r", "e", "n", "c", "e">>,
     <<"W", "o", "r", "k", "s", "h", "o", "p">>,
     <<"P", "h", "y", "s", "i", "c", "a", "l", "_", "G", "e", "o">>,
     <<"H", "u", "m", "a", "n", "_", "G", "e", "o">>,
     <<"U", "r", "b", "a", "n">>,
     <<"G", "I", "S">>,
     <<"R", "S">>,
     <<"G", "N", "S", "S">>
  }

date_fields == {<<"D", "e", "a", "d", "l", "i", "n", "e">>}

number_fields == {<<"N", "u", "m", "b", "e", "r", "_", "P", "l", "a", "c", "e", "s">>}

translation_fields == {<<"U", "n", "i", "v", "e", "r", "s", "i", "t", "y", "_", "C", "N">>, <<"C", "o", "u", "n", "t", "r", "y", "_", "C", "N">>}

\* the columns the extraction is not to fill
control_fields ==
  {<<"N", "o", "t", "e", "s">>, <<"S", "o", "u", "r", "c", "e">>, <<"V", "e", "r", "i", "f", "i", "e", "r">>, <<"E", "r", "r", "o", "r">>}

\* english_to_number, as <<word, digits>> pairs
english_to_number ==
  {
     <<<<"z", "e", "r", "o">>, <<"0">>>>,
     <<<<"o", "n", "e">>, <<"1">>>>,
     <<<<"t", "w", "o">>, <<"2">>>>,
     <<<<"t", "h", "r", "e", "e">>, <<"3">>>>,
     <<<<"f", "o", "u", "r">>, <<"4">>>>,
     <<<<"f", "i", "v", "e">>, <<"5">>>>,
     <<<<"s", "i", "x">>, <<"6">>>>,
     <<<<"s", "e", "v", "e", "n">>, <<"7">>>>,
     <<<<"e", "i", "g", "h", "t">>, <<"8">>>>,
     <<<<"n", "i", "n", "e">>, <<"9">>>>,
     <<<<"t", "e", "n">>, <<"1", "0">>>>,
     <<<<"e", "l", "e", "v", "e", "n">>, <<"1", "1">>>>,
     <<<<"t", "w", "e", "l", "v", "e">>, <<"1", "2">>>>,
     <<<<"t", "h", "i", "r", "t", "e", "e", "n">>, <<"1", "3">>>>,
     <<<<"f", "o", "u", "r", "t", "e", "e", "n">>, <<"1", "4">>>>,
     <<<<"f", "i", "f", "t", "e", "e", "n">>, <<"1", "5">>>>,
     <<<<"s", "i", "x", "t", "e", "e", "n">>, <<"1", "6">>>>,
     <<<<"s", "e", "v", "e", "n", "t", "e", "e", "n">>, <<"1", "7">>>>,
     <<<<"e", "i", "g", "h", "t", "e", "e", "n">>, <<"1", "8">>>>,
     <<<<"n", "i", "n", "e", "t", "e", "e", "n">>, <<"1", "9">>>>,
     <<<<"t", "w", "e", "n", "t", "y">>, <<"2", "0">>>>,
     <<<<"t", "h", "i", "r", "t", "y">>, <<"3", "0">>>>,
     <<<<"f", "o", "r", "t", "y">>, <<"4", "0">>>>,
     <<<<"f", "i", "f", "t", "y">>, <<"5", "0">>>>,
     <<<<"s", "i", "x", "t", "y">>, <<"6", "0">>>>,
     <<<<"s", "e", "v", "e", "n", "t", "y">>, <<"7", "0">>>>,
     <<<<"e", "i", "g", "h", "t", "y">>, <<"8", "0">>>>,
     <<<<"n", "i", "n", "e", "t", "y">>, <<"9", "0">>>>
  }

\* the number_fields branch with the text that is no number returned in
\* lower case, as it was looked up
NormalizeQuantityLowered(v) ==
  IF Truthy(v) /\ IsDigitStr(Strip(StrOf(v))) THEN Returned(Strip(StrOf(v)))
  ELSE IF Truthy(v) /\ v.t = "str"
  THEN LET value_lower == Lower(Strip(StrOf(v)))
           hits == {p \in english_to_number : p[1] = value_lower}
       IN IF hits # {} THEN Returned((CHOOSE p \in hits : TRUE)[2])
          ELSE Returned(value_lower)
  ELSE Returned(<<>>)

\* the number_fields branch of process_results
NormalizeQuantity(v) ==
  IF Truthy(v) /\ IsDigitStr(Strip(StrOf(v))) THEN Returned(Strip(StrOf(v)))
  ELSE IF Truthy(v) /\ v.t = "str"
  THEN LET value_lower == Lower(Strip(StrOf(v)))
           hits == {p \in english_to_number : p[1] = value_lower}
       IN IF hits # {} THEN Returned((CHOOSE p \in hits : TRUE)[2])
          ELSE Returned(Strip(StrOf(v)))
  ELSE Returned(<<>>)

\* the text and default branches of process_results:
\* str(value).strip() if value and not pd.isna(value) else ""
NormalizeText(v) ==
  IF ~Truthy(v) THEN Returned(<<>>)
  ELSE IF IsNa(v) = "raise" THEN Raised
  ELSE IF IsNa(v) = "yes" THEN Returned(<<>>)
  ELSE Returned(Strip(StrOf(v)))

\* the body of the loop of process_results for one key
NormalizeField(key, v, year_now) ==
  IF key \in date_fields THEN format_date(v, year_now)
  ELSE IF key \in category_fields THEN normalize_value(v)
  ELSE IF key \in number_fields THEN NormalizeQuantity(v)
  ELSE NormalizeText(v)

\* DataFormatter.process_results(results): [raised, dict].  Anything but a
\* dict has no keys(): an AttributeError.
process_results(results, year_now) ==
  IF results.t # "dict" THEN [raised |-> TRUE, dict |-> PyDict(<<>>)]
  ELSE With([k \in DOMAIN results.items |->
               NormalizeField(KeyOf(results.items[k]), ValOf(results.items[k]), year_now)],
            LAMBDA outs :
              IF \E k \in DOMAIN outs : outs[k].raised
              THEN [raised |-> TRUE, dict |-> PyDict(<<>>)]
              ELSE [raised |-> FALSE,
                    dict |-> PyDict([k \in DOMAIN outs |->
                               Entry(KeyOf(results.items[k]), PyStr(outs[k].val))])])

----------------------------------------------------------------------------
(* json.loads and LlmProcessor._parse_model_output                         *)

\* the outcome of a scan: whether it succeeded, the value, the position after it
Scanned(v, next) == [ok |-> TRUE, val |-> v, next |-> next]

NoScan == [ok |-> FALSE, val |-> PyNone, next |-> 0]

CharAt(s, i) == IF i >= 1 /\ i <= Len(s) THEN s[i] ELSE ""

\* the position after the white space at i
SkipWs(s, i) == i + RunLen(s, i, WhiteSpace)

\* the character an escape \c of a JSON string stands for ("" for none; \u
\* escapes are outside the alphabets of the replies)
Unescape(c) ==
  CASE c \in {"\"", "\\", "/"} -> c
    [] c = "n" -> "\n"
    [] c = "t" -> "\t"
    [] c = "r" -> "\r"
    [] OTHER -> ""

\* a JSON string from position i, after its opening quote; acc is the text
\* read so far.  A raw control character ends the scan with an error.
RECURSIVE ScanString(_, _, _)
ScanString(s, i, acc) ==
  LET c == CharAt(s, i)
  IN IF c = "" \/ c \in {"\t", "\n", "\r"} THEN NoScan
     ELSE IF c = "\"" THEN Scanned(PyStr(acc), i + 1)
     ELSE IF c = "\\"
     THEN IF Unescape(CharAt(s, i + 1)) = "" THEN NoScan
          ELSE ScanString(s, i + 2, Append(acc, Unescape(CharAt(s, i + 1))))
     ELSE ScanString(s, i + 1, Append(acc, c))

\* NUMBER_RE at position i: -?(0|[1-9]\d*)(\.\d+)?([eE][-+]?\d+)?
\* An int is kept by its decimal text, a float by its literal.
\* the length of (0|[1-9]\d*) at position a
IntPartLen(s, a) == IF CharAt(s, a) = "0" THEN 1 ELSE RunLen(s, a, Digits)

\* the length of (\.\d+)? at position b
FracPartLen(s, b) ==
  IF CharAt(s, b) = "." /\ RunLen(s, b + 1, Digits) > 0
  THEN 1 + RunLen(s, b + 1, Digits) ELSE 0

\* the length of ([eE][-+]?\d+)? at position c
ExpPartLen(s, c) ==
  LET sign == IF CharAt(s, c + 1) \in {"-", "+"} THEN 1 ELSE 0
  IN IF CharAt(s, c) \in {"e", "E"} /\ RunLen(s, c + 1 + sign, Digits) > 0
     THEN 1 + sign + RunLen(s, c + 1 + sign, Digits) ELSE 0

ScanNumber(s, i) ==
  With(i + (IF CharAt(s, i) = "-" THEN 1 ELSE 0), LAMBDA a :
    With(IntPartLen(s, a), LAMBDA nint :
      With(FracPartLen(s, a + nint), LAMBDA nfrac :
        With(ExpPartLen(s, a + nint + nfrac), LAMBDA nexp :
          With(SubSeq(s, i, a + nint + nfrac + nexp - 1), LAMBDA text :
            IF nint = 0 THEN NoScan
            ELSE IF nfrac + nexp > 0
            THEN Scanned(PyFloat(text), i + Len(text))
            ELSE Scanned(PyInt(IF text = <<"-", "0">> THEN <<"0">> ELSE text),
                         i + Len(text)))))))

\* dict[key] = value on the entries of a dict: a repeated key keeps its place
\* and takes the new value
PutEntry(entries, key, value) ==
  IF \E k \in DOMAIN entries : KeyOf(entries[k]) = key
  THEN [k \in DOMAIN entries |->
          IF KeyOf(entries[k]) = key THEN Entry(key, value) ELSE entries[k]]
  ELSE Append(entries, Entry(key, value))

RECURSIVE ScanValue(_, _)
RECURSIVE ScanMembers(_, _, _)
RECURSIVE ScanElements(_, _, _)

\* JSONObject from position i, where a key must start
ScanMembers(s, i, acc) ==
  IF CharAt(s, i) # "\"" THEN NoScan
  ELSE With(ScanString(s, i + 1, <<>>), LAMBDA key :
    IF ~key.ok THEN NoScan
    ELSE With(SkipWs(s, key.next), LAMBDA colon :
      IF CharAt(s, colon) # ":" THEN NoScan
      ELSE With(ScanValue(s, SkipWs(s, colon + 1)), LAMBDA value :
        IF ~value.ok THEN NoScan
        ELSE With(SkipWs(s, value.next), LAMBDA after :
          With(PutEntry(acc, key.val.s, value.val), LAMBDA entries :
            IF CharAt(s, after) = "}"
            THEN Scanned(PyDict(entries), after + 1)
            ELSE IF CharAt(s, after) = ","
            THEN ScanMembers(s, SkipWs(s, after + 1), entries)
            ELSE NoScan)))))

\* JSONArray from position i, where an element must start
ScanElements(s, i, acc) ==
  With(ScanValue(s, i), LAMBDA value :
    IF ~value.ok THEN NoScan
    ELSE With(SkipWs(s, value.next), LAMBDA after :
      IF CharAt(s, after) = "]"
      THEN Scanned(PyList(Append(acc, value.val)), after + 1)
      ELSE IF CharAt(s, after) = ","
      THEN ScanElements(s, SkipWs(s, after + 1), Append(acc, value.val))
      ELSE NoScan))

\* scan_once: the JSON value that starts at position i
ScanValue(s, i) ==
  LET c == CharAt(s, i)
  IN CASE c = "\"" -> ScanString(s, i + 1, <<>>)
       [] c = "{" ->
            With(SkipWs(s, i + 1), LAMBDA first :
              IF CharAt(s, first) = "}" THEN Scanned(PyDict(<<>>), first + 1)
              ELSE ScanMembers(s, first, <<>>))
       [] c = "[" ->
            With(SkipWs(s, i + 1), LAMBDA first :
              IF CharAt(s, first) = "]" THEN Scanned(PyList(<<>>), first + 1)
              ELSE ScanElements(s, first, <<>>))
       [] c = "n" /\ HasAt(s, i, <<"n", "u", "l", "l">>) -> Scanned(PyNone, i + 4)
       [] c = "t" /\ HasAt(s, i, <<"t", "r", "u", "e">>) -> Scanned(PyBool(TRUE), i + 4)
       [] c = "f" /\ HasAt(s, i, <<"f", "a", "l", "s", "e">>) ->
            Scanned(PyBool(FALSE), i + 5)
       [] c = "N" /\ HasAt(s, i, <<"N", "a", "N">>) -> Scanned(PyNaN, i + 3)
       [] c = "I" /\ HasAt(s, i, <<"I", "n", "f", "i", "n", "i", "t", "y">>) ->
            Scanned(PyFloat(<<"i", "n", "f">>), i + 8)
       [] c = "-" /\ HasAt(s, i, <<"-", "I", "n", "f", "i", "n", "i", "t", "y">>) ->
            Scanned(PyFloat(<<"-", "i", "n", "f">>), i + 9)
       [] OTHER -> ScanNumber(s, i)

\* json.loads(s): [ok, val]; ok = FALSE for a JSONDecodeError (no value, or
\* data after the value)
json_loads(s) ==
  With(ScanValue(s, SkipWs(s, 1)), LAMBDA r :
    IF r.ok /\ SkipWs(s, r.next) = Len(s) + 1
    THEN [ok |-> TRUE, val |-> r.val]
    ELSE [ok |-> FALSE, val |-> PyNone])

\* output.find(c) and output.rfind(c), 0-based, -1 when c is not there
Find(s, c) ==
  IF \E i \in DOMAIN s : s[i] = c
  THEN (CHOOSE i \in DOMAIN s : s[i] = c /\ \A j \in 1..(i - 1) : s[j] # c) - 1
  ELSE -1

RFind(s, c) ==
  IF \E i \in DOMAIN s : s[i] = c
  THEN (CHOOSE i \in DOMAIN s : s[i] = c /\ \A j \in (i + 1)..Len(s) : s[j] # c) - 1
  ELSE -1

\* _parse_model_output with a second attempt on the whole reply when the
\* braced part does not decode
parse_model_output_retrying(output) ==
  LET json_start == Find(output, "{")
      json_end == RFind(output, "}") + 1
  IN With(json_loads(IF json_start >= 0 /\ json_end > json_start
                     THEN SubSeq(output, json_start + 1, json_end)
                     ELSE output),
          LAMBDA attempt :
            IF attempt.ok THEN attempt.val
            ELSE With(json_loads(output), LAMBDA whole :
                   IF whole.ok THEN whole.val ELSE PyDict(<<>>)))

\* LlmProcessor._parse_model_output(output), output a text: the value returned
parse_model_output(output) ==
  LET json_start == Find(output, "{")
      json_end == RFind(output, "}") + 1
  IN With(json_loads(IF json_start >= 0 /\ json_end > json_start
                     THEN SubSeq(output, json_start + 1, json_end)
                     ELSE output),
          LAMBDA attempt : IF attempt.ok THEN attempt.val ELSE PyDict(<<>>))

----------------------------------------------------------------------------
(* ExcelProcessor: the sheet, load_data, _is_url, filter_rows,             *)
(* _get_column_index, write_results                                        *)

\* [-a-zA-Z0-9@:%._\+~#=], the characters of the host part of url_pattern
UrlHostChars == Digits \cup Letters \cup {"-", "@", ":", "%", ".", "_", "+", "~", "#", "="}

\* [a-zA-Z0-9()], the characters after the last dot of the host
UrlTldChars == Digits \cup Letters \cup {"(", ")"}

\* the longest host url_pattern admits, {1,256}
MaxHostLen == 256

\* the longest run after the dot, {1,6}
MaxTldLen == 6

\* \b at position i of s (between s[i - 1] and s[i])
WordBoundary(s, i) == (CharAt(s, i - 1) \in WordChars) # (CharAt(s, i) \in WordChars)

\* ExcelProcessor._is_url(text): url_pattern.match(text.strip()).  The pattern
\* matches when some choice of its optional groups and of the lengths of its
\* two runs does; its last group matches the empty text.
is_url(text) ==
  LET s == Strip(text)
      schemes == {<<>>, <<"h", "t", "t", "p", ":", "/", "/">>,
                  <<"h", "t", "t", "p", "s", ":", "/", "/">>}
      wwws == {<<>>, <<"w", "w", "w", ".">>}
  IN \E scheme \in schemes, www \in wwws :
       /\ HasAt(s, 1, scheme)
       /\ HasAt(s, 1 + Len(scheme), www)
       /\ LET a == 1 + Len(scheme) + Len(www)
          IN \E h \in 1..MaxHostLen, n \in 1..MaxTldLen :
               /\ a + h + n <= Len(s)
               /\ \A k \in a..(a + h - 1) : s[k] \in UrlHostChars
               /\ s[a + h] = "."
               /\ \A k \in (a + h + 1)..(a + h + n) : s[k] \in UrlTldChars
               /\ WordBoundary(s, a + h + n + 1)

ColNotes == <<"N", "o", "t", "e", "s">>

ColVerifier == <<"V", "e", "r", "i", "f", "i", "e", "r">>

ColError == <<"E", "r", "r", "o", "r">>

ColSource == <<"S", "o", "u", "r", "c", "e">>

\* required_columns of filter_rows, in its order
required_columns == <<ColNotes, ColVerifier, ColError>>

\* the texts pandas reads as a missing value (the ones the inputs can hold)
NaTexts ==
  {<<>>, <<"n", "a", "n">>, <<"N", "a", "N">>, <<"n", "u", "l", "l">>,
   <<"N", "o", "n", "e">>, <<"N", "A">>, <<"N", "/", "A">>}

\* the value pd.read_excel gives for a cell of the sheet
ReadCell(v) == IF v.t = "none" \/ (v.t = "str" /\ v.s \in NaTexts) THEN PyNaN ELSE v

\* the name pd.read_excel gives to column k of the sheet: its header, or
\* "Unnamed: <k - 1>" when the header cell is empty
ColumnName(header, k) ==
  IF header[k].t = "str" /\ header[k].s # <<>> THEN header[k].s
  ELSE <<"U", "n", "n", "a", "m", "e", "d", ":", " ">> \o Pad(k - 1, 1)

\* ExcelProcessor.load_data: the DataFrame read from the sheet,
\* [columns, rows]; row r of the frame (index r - 1) is row r + 1 of the sheet
load_data(sheet) ==
  [columns |-> [k \in DOMAIN sheet.header |-> ColumnName(sheet.header, k)],
   rows |-> [r \in DOMAIN sheet.cells |->
               [k \in DOMAIN sheet.cells[r] |-> ReadCell(sheet.cells[r][k])]]]

\* ExcelProcessor._get_column_index(column_name): 1-based, 0 when absent
get_column_index(frame, name) ==
  IF \E k \in DOMAIN frame.columns : frame.columns[k] = name
  THEN CHOOSE k \in DOMAIN frame.columns :
         /\ frame.columns[k] = name
         /\ \A j \in 1..(k - 1) : frame.columns[j] # name
  ELSE 0

\* self.df[col] = None for each required column that is missing
RECURSIVE EnsureColumns(_, _)
EnsureColumns(frame, cols) ==
  IF cols = <<>> THEN frame
  ELSE IF get_column_index(frame, Head(cols)) # 0 THEN EnsureColumns(frame, Tail(cols))
  ELSE EnsureColumns([columns |-> Append(frame.columns, Head(cols)),
                      rows |-> [r \in DOMAIN frame.rows |-> Append(frame.rows[r], PyNone)]],
                     Tail(cols))

\* row[name] of row r of the frame (the column exists)
CellOf(frame, r, name) == frame.rows[r][get_column_index(frame, name)]

\* series.isna() | (series == '')
IsBlank(v) == IsNa(v) = "yes" \/ (v.t = "str" /\ v.s = <<>>)

\* the mask without its test of the Error column
SelectedWhateverError(frame, r) ==
  /\ \/ IsBlank(CellOf(frame, r, ColNotes))
     \/ (CellOf(frame, r, ColNotes).t = "str" /\ is_url(CellOf(frame, r, ColNotes).s))
  /\ IsBlank(CellOf(frame, r, ColVerifier))

\* the mask of filter_rows for row r
Selected(frame, r) ==
  /\ \/ IsBlank(CellOf(frame, r, ColNotes))
     \/ (CellOf(frame, r, ColNotes).t = "str" /\ is_url(CellOf(frame, r, ColNotes).s))
  /\ IsBlank(CellOf(frame, r, ColVerifier))
  /\ IsBlank(CellOf(frame, r, ColError))

\* the frame indexed by the mask: the indices (0-based, as pandas labels
\* them) of the rows kept, in the order of the frame
MaskRows(frame) ==
  SelectSeq([r \in DOMAIN frame.rows |-> r - 1], LAMBDA idx : Selected(frame, idx + 1))

\* ExcelProcessor.filter_rows on the loaded frame: the frame with the columns
\* created, and the indices of the rows to process
filter_rows(frame) ==
  LET full == EnsureColumns(frame, required_columns)
  IN [df |-> full, filtered |-> MaskRows(full)]

\* n empty cells
Blanks(n) == [k \in 1..n |-> PyNone]

\* ws.cell(row=r + 1, column=col).value = v on a sheet, r a data row: a column
\* past the last one widens the sheet, and the header cell over it stays empty
SetCell(sheet, r, col, v) ==
  LET w == Len(sheet.header)
      grow == IF col > w THEN col - w ELSE 0
  IN [header |-> sheet.header \o Blanks(grow),
      cells |-> [q \in DOMAIN sheet.cells |->
                   IF q = r
                   THEN [k \in 1..(w + grow) |->
                           IF k = col THEN v
                           ELSE IF k <= w THEN sheet.cells[q][k] ELSE PyNone]
                   ELSE sheet.cells[q] \o Blanks(grow)]]

\* the loop of write_results over processed_results: a value goes to the
\* column of its key when the frame has that column
RECURSIVE WriteEntries(_, _, _, _)
WriteEntries(sheet, frame, r, entries) ==
  IF entries = <<>> THEN sheet
  ELSE LET col_index == get_column_index(frame, KeyOf(Head(entries)))
       IN WriteEntries(IF col_index # 0
                       THEN SetCell(sheet, r, col_index, ValOf(Head(entries)))
                       ELSE sheet,
                       frame, r, Tail(entries))

\* a write_results that stamps no row: whatever it is given, it puts a message
\* into the Error cell
write_results_marking(sheet, frame, row_index, results, has_error, error_msg, year_now) ==
  LET error_col == get_column_index(frame, ColError)
      text == IF has_error THEN error_msg ELSE <<"e", "m", "p", "t", "y">>
  IN IF error_col = 0 THEN [sheet |-> sheet, reached |-> FALSE]
     ELSE [sheet |-> SetCell(sheet, row_index + 1, error_col, PyStr(text)),
           reached |-> TRUE]

\* The body of the try of ExcelProcessor.write_results up to the save, on the
\* workbook in memory: [sheet, reached], reached = FALSE when an exception
\* left the try before workbook.save (the except clause only logs it).  Row
\* row_index of the frame is row row_index + 2 of the sheet.
write_results(sheet, frame, row_index, results, has_error, error_msg, year_now) ==
  IF has_error
  THEN LET error_col == get_column_index(frame, ColError)
       IN IF error_col = 0 THEN [sheet |-> sheet, reached |-> FALSE]
          ELSE [sheet |-> SetCell(sheet, row_index + 1, error_col, PyStr(error_msg)),
                reached |-> TRUE]
  ELSE With(process_results(results, year_now), LAMBDA processed_results :
         IF processed_results.raised THEN [sheet |-> sheet, reached |-> FALSE]
         ELSE With(WriteEntries(sheet, frame, row_index + 1,
                                processed_results.dict.items),
                   LAMBDA filled :
                     LET verifier_col == get_column_index(frame, ColVerifier)
                     IN [sheet |-> IF verifier_col # 0
                                   THEN SetCell(filled, row_index + 1, verifier_col,
                                                PyStr(<<"L", "L", "M">>))
                                   ELSE filled,
                         reached |-> TRUE]))

----------------------------------------------------------------------------
(* The state                                                               *)

VARIABLES
  stored,           \* the sheet in the file excel_path
  workbook,         \* self.workbook, the sheet in memory
  df,               \* self.df, the frame read by load_data
  filtered,         \* filtered_df, by the indices of its rows
  pc,               \* the place of ExtractionSystem.run
  i,                \* the position of the loop of run in filtered_df
  url,              \* the url of the row at hand
  web_content,      \* what extract_content returned for it
  structured_info,  \* what extract_structured_info returned for it
  exc,              \* str(e) of the exception the row raised
  batch_size,       \* the batch_size of the run
  save_failures,    \* how many times workbook.save has raised
  log,              \* what the run has done so far, in order
  year_now,         \* datetime.now().year
  results,          \* the argument of a call of process_results
  processed,        \* the outcomes of that call and of the call on its result
  output,           \* the argument of a call of _parse_model_output
  parsed            \* the value that call returned, in a sequence

vars ==
  <<stored, workbook, df, filtered, pc, i, url, web_content, structured_info, exc,
    batch_size, save_failures, log, year_now, results, processed, output, parsed>>

run_vars ==
  <<stored, workbook, df, filtered, pc, i, url, web_content, structured_info, exc,
    batch_size, save_failures, log>>

run_vars_but_pc ==
  <<stored, workbook, df, filtered, i, url, web_content, structured_info, exc,
    batch_size, save_failures, log>>

call_vars == <<results, processed, output, parsed>>

----------------------------------------------------------------------------
(* The inputs of a run                                                     *)

\* the most data rows a sheet holds
MaxRows == 2

\* the most times workbook.save raises in a run
MaxSaveFailures == 1

\* the batch sizes given to a run (--batch_size takes any int)
BatchSizes == {-2, 0, 1, 2}

\* the years a run or a call happens in
Years == {2026, 2028}

ColDeadline == <<"D", "e", "a", "d", "l", "i", "n", "e">>

ColPlaces == <<"N", "u", "m", "b", "e", "r", "_", "P", "l", "a", "c", "e", "s">>

ColGIS == <<"G", "I", "S">>

\* the headers of the sheets: all columns, and sheets that lack a required one
Headers ==
  {
     <<ColSource, ColNotes, ColVerifier, ColError, ColDeadline, ColPlaces, ColGIS>>,
     <<ColSource, ColNotes, ColVerifier, ColDeadline, ColPlaces, ColGIS>>,
     <<ColSource, ColNotes, ColError, ColDeadline, ColPlaces, ColGIS>>
  }

UrlText == <<"x", ".", "i", "o", "/", "a">>

NoteUrlText == <<"y", ".", "i", "o">>

PlainText == <<"t", "b", "d">>

\* the rows of the sheets, by their control cells
RowKinds ==
  {
     [source |-> PyStr(UrlText), notes |-> PyNone, verifier |-> PyNone, error |-> PyNone],
     [source |-> PyNone, notes |-> PyNone, verifier |-> PyNone, error |-> PyNone],
     [source |-> PyStr(PlainText), notes |-> PyNone, verifier |-> PyNone, error |-> PyNone],
     [source |-> PyStr(UrlText), notes |-> PyStr(NoteUrlText), verifier |-> PyNone,
      error |-> PyNone],
     [source |-> PyStr(UrlText), notes |-> PyStr(PlainText), verifier |-> PyNone,
      error |-> PyNone],
     [source |-> PyStr(UrlText), notes |-> PyNone, verifier |-> PyStr(PlainText),
      error |-> PyNone],
     [source |-> PyStr(UrlText), notes |-> PyNone, verifier |-> PyNone,
      error |-> PyStr(PlainText)]
  }

\* the cells of a row of a kind under a header; the extraction cells are empty
RowCells(kind, header) ==
  [k \in DOMAIN header |->
     CASE header[k] = ColSource -> kind.source
       [] header[k] = ColNotes -> kind.notes
       [] header[k] = ColVerifier -> kind.verifier
       [] header[k] = ColError -> kind.error
       [] OTHER -> PyNone]

Sheets ==
  {[header |-> [k \in DOMAIN h |-> PyStr(h[k])],
    cells |-> [r \in DOMAIN kinds |-> RowCells(kinds[r], h)]] :
     h \in Headers, kinds \in UNION {[1..n -> RowKinds] : n \in 0..MaxRows}}

\* what extract_content returns: the text of the page, or the marker
\* "[...: <error>]" its except clauses build
PageText == <<"p", "a", "g", "e">>

FailureMarker == <<"[", "f", "a", "i", "l", "e", "d", ":", " ", "t", "i", "m", "e", "o", "u", "t", "]">>

ReplyFields ==
  <<"{", "\"", "D", "e", "a", "d", "l", "i", "n", "e", "\"", ":", "\"", "9",
    "t", "h", " ", "o", "f", " ", "J", "u", "n", "e", ",", " ", "2", "0",
    "2", "5", "\"", ",", "\"", "N", "u", "m", "b", "e", "r", "_", "P", "l",
    "a", "c", "e", "s", "\"", ":", "\"", "t", "h", "r", "e", "e", "\"", ",",
    "\"", "G", "I", "S", "\"", ":", "\"", "y", "e", "s", "\"", "}">>

ReplyProse ==
  <<"s", "o", "r", "r", "y">>

ReplyBraces ==
  <<"h", "e", "r", "e", " ", "{", "o", "o", "p", "s", "}">>

ReplyList ==
  <<"[", "1", ",", " ", "2", "]">>

ReplyControl ==
  <<"{", "\"", "E", "r", "r", "o", "r", "\"", ":", "\"", "n", "o", "n", "e",
    "\"", ",", "\"", "G", "I", "S", "\"", ":", "\"", "\"", "}">>

ReplyNested ==
  <<"{", "\"", "G", "I", "S", "\"", ":", "[", "1", ",", " ", "2", "]", "}">>

\* the replies of the model
Replies == {ReplyFields, ReplyProse, ReplyBraces, ReplyList, ReplyControl, ReplyNested}

\* "处理失败: ", the head of error_msg
ErrorPrefix == <<"f", "a", "i", "l", "e", "d", ":", " ">>

\* str(e) of the exceptions a row raises
ExcTransport == <<"c", "o", "n", "n", "e", "c", "t", "i", "o", "n", " ", "r", "e", "f", "u", "s", "e", "d">>

ExcZero == <<"i", "n", "t", "e", "g", "e", "r", " ", "d", "i", "v", "i", "s", "i", "o", "n", " ", "o", "r", " ", "m", "o", "d", "u", "l", "o", " ", "b", "y", " ", "z", "e", "r", "o">>

ExcKey == <<"'", "S", "o", "u", "r", "c", "e", "'">>

ExcAttr == <<"n", "o", " ", "a", "t", "t", "r", "i", "b", "u", "t", "e", " ", "'", "s", "t", "r", "i", "p", "'">>

NoSheet == [header |-> <<>>, cells |-> <<>>]

NoFrame == [columns |-> <<>>, rows |-> <<>>]

----------------------------------------------------------------------------
(* ExtractionSystem.run                                                    *)

\* one entry of the log: what was done, and for which row of the frame
Ev(e, idx) == [e |-> e, idx |-> idx]

\* a % b of Python, b # 0: the result takes the sign of b
PyMod(a, b) == IF b > 0 THEN a % b ELSE -((-a) % (-b))

\* the index of the row at position i of filtered_df counted from its end
IdxFromLast == filtered[Len(filtered) - i]

\* idx of the loop: the index of the row at position i of filtered_df
Idx == filtered[i + 1]

\* the objects of ExtractionSystem before run has done anything
Fresh ==
  /\ workbook = NoSheet
  /\ df = NoFrame
  /\ filtered = <<>>
  /\ i = 0
  /\ url = PyNone
  /\ web_content = <<>>
  /\ structured_info = PyNone
  /\ exc = <<>>
  /\ save_failures = 0
  /\ log = <<>>

\* no call of process_results or _parse_model_output on its own is under way
NoCall ==
  /\ results = PyNone
  /\ processed = <<>>
  /\ output = <<>>
  /\ parsed = <<>>

Init ==
  /\ stored \in Sheets
  /\ batch_size \in BatchSizes
  /\ year_now \in Years
  /\ pc = "start"
  /\ Fresh
  /\ NoCall

\* load_data and filter_rows, and the return on an empty selection
Load ==
  /\ pc = "start"
  /\ \E f \in {filter_rows(load_data(stored))} :
       /\ df' = f.df
       /\ filtered' = f.filtered
       /\ pc' = IF f.filtered = <<>> THEN "done" ELSE "row"
  /\ workbook' = stored
  /\ UNCHANGED <<stored, i, url, web_content, structured_info, exc, batch_size,
                 save_failures, log, year_now, call_vars>>

\* the head of the loop body: the url of the row, from Notes when Notes holds
\* a url, else from the url column; a row without one is skipped
BeginRow ==
  /\ pc = "row"
  /\ i < Len(filtered)
  /\ LET notes == CellOf(df, Idx + 1, ColNotes)
         notes_value == IF IsNa(notes) = "yes" THEN PyStr(<<>>) ELSE notes
         source == CellOf(df, Idx + 1, ColSource)
     IN IF notes_value.t = "str" /\ is_url(notes_value.s)
        THEN /\ url' = PyStr(Strip(notes_value.s))
             /\ pc' = "fetch"
             /\ UNCHANGED <<i, exc, log>>
        ELSE IF get_column_index(df, ColSource) = 0
        THEN /\ exc' = ExcKey
             /\ pc' = "except"
             /\ UNCHANGED <<i, url, log>>
        ELSE IF ~Truthy(source) \/ IsNa(source) = "yes"
        THEN /\ i' = i + 1
             /\ log' = Append(log, Ev("skip", Idx))
             /\ UNCHANGED <<pc, url, exc>>
        ELSE /\ url' = source
             /\ pc' = "fetch"
             /\ UNCHANGED <<i, exc, log>>
  /\ UNCHANGED <<stored, workbook, df, filtered, web_content, structured_info,
                 batch_size, save_failures, year_now, call_vars>>

\* web_extractor.extract_content(url): the text of the document, or the
\* failure marker; url.strip() raises on a url that is no text
Fetch ==
  /\ pc = "fetch"
  /\ IF url.t # "str"
     THEN /\ exc' = ExcAttr
          /\ pc' = "except"
          /\ UNCHANGED <<web_content, log>>
     ELSE \E content \in {PageText, FailureMarker} :
            /\ web_content' = content
            /\ log' = Append(log, Ev(IF content = FailureMarker THEN "fetch_failed"
                                     ELSE "fetched", Idx))
            /\ pc' = "llm"
            /\ exc' = exc
  /\ UNCHANGED <<stored, workbook, df, filtered, i, url, structured_info, batch_size,
                 save_failures, year_now, call_vars>>

\* llm_processor.extract_structured_info(web_content, fields): the call of the
\* model raises, or its reply is parsed
Extract ==
  /\ pc = "llm"
  /\ \/ /\ exc' = ExcTransport
        /\ pc' = "except"
        /\ UNCHANGED structured_info
     \/ \E reply \in Replies :
          /\ structured_info' = parse_model_output(reply)
          /\ pc' = "write"
          /\ exc' = exc
  /\ log' = Append(log, Ev("llm", Idx))
  /\ UNCHANGED <<stored, workbook, df, filtered, i, url, web_content, batch_size,
                 save_failures, year_now, call_vars>>

\* whether workbook.save succeeds, for each way it can go now
SaveOutcomes == IF save_failures < MaxSaveFailures THEN {TRUE, FALSE} ELSE {TRUE}

\* A call of write_results, after the caller logged the entries before: the
\* cells are set in the workbook in memory and the write is logged ("marked"
\* for an error message, "success" for the fields); workbook.save then writes
\* the workbook to the file.  An exception before the save, or the save
\* raising, is logged ("write_failed") and dropped.
WriteResults(idx, info, has_error, error_msg, before) ==
  \E w \in {write_results(workbook, df, idx, info, has_error, error_msg, year_now)} :
    /\ workbook' = w.sheet
    /\ IF w.reached
       THEN \E saved \in SaveOutcomes :
              /\ stored' = IF saved THEN w.sheet ELSE stored
              /\ save_failures' = IF saved THEN save_failures ELSE save_failures + 1
              /\ log' = log \o before
                           \o <<Ev(IF has_error THEN "marked" ELSE "success", idx)>>
                           \o (IF saved THEN <<>> ELSE <<Ev("write_failed", idx)>>)
       ELSE /\ UNCHANGED <<stored, save_failures>>
            /\ log' = log \o before \o <<Ev("write_failed", idx)>>

\* excel_processor.write_results(idx, structured_info)
WriteBack ==
  /\ pc = "write"
  /\ WriteResults(Idx, structured_info, FALSE, <<>>, <<>>)
  /\ pc' = "throttle"
  /\ UNCHANGED <<df, filtered, i, url, web_content, structured_info, exc, batch_size,
                 year_now, call_vars>>

\* if (i + 1) % batch_size == 0: time.sleep(5); a batch size of 0 raises
\* ZeroDivisionError inside the try of the row
Throttle ==
  /\ pc = "throttle"
  /\ IF batch_size = 0
     THEN /\ exc' = ExcZero
          /\ pc' = "except"
          /\ UNCHANGED <<i, log>>
     ELSE /\ log' = IF PyMod(i + 1, batch_size) = 0 THEN Append(log, Ev("pause", Idx))
                    ELSE log
          /\ i' = i + 1
          /\ pc' = "row"
          /\ exc' = exc
  /\ UNCHANGED <<stored, workbook, df, filtered, url, web_content, structured_info,
                 batch_size, save_failures, year_now, call_vars>>

\* the except clause of the row: the exception is logged ("error"), then
\* write_results(idx, {}, has_error=True, error_msg=f"处理失败: {str(e)}")
Except ==
  /\ pc = "except"
  /\ WriteResults(Idx, PyDict(<<>>), TRUE, ErrorPrefix \o exc, <<Ev("error", Idx)>>)
  /\ i' = i + 1
  /\ pc' = "row"
  /\ UNCHANGED <<df, filtered, url, web_content, structured_info, exc, batch_size,
                 year_now, call_vars>>

\* the loop is over
Finish ==
  /\ pc = "row"
  /\ i = Len(filtered)
  /\ pc' = "done"
  /\ UNCHANGED <<stored, workbook, df, filtered, i, url, web_content, structured_info,
                 exc, batch_size, save_failures, log, year_now, call_vars>>

Next == Load \/ BeginRow \/ Fetch \/ Extract \/ WriteBack \/ Throttle \/ Except \/ Finish

Spec == Init /\ [][Next]_vars

----------------------------------------------------------------------------
(* filter_rows on its own: tables with every kind of control cell           *)

\* the rows of the tables given to the selector, by their control cells
SelRowKinds ==
  {[source |-> PyStr(UrlText), notes |-> n, verifier |-> v, error |-> e] :
     n \in {PyNone, PyStr(<<>>), PyStr(NoteUrlText), PyStr(PlainText), PyInt(<<"5">>)},
     v \in {PyNone, PyStr(<<"L", "L", "M">>)},
     e \in {PyNone, PyStr(PlainText)}}

SelSheets ==
  {[header |-> [k \in DOMAIN h |-> PyStr(h[k])],
    cells |-> [r \in DOMAIN kinds |-> RowCells(kinds[r], h)]] :
     h \in Headers, kinds \in UNION {[1..n -> SelRowKinds] : n \in 0..MaxRows}}

SelInit ==
  /\ stored \in SelSheets
  /\ batch_size = 1
  /\ year_now \in Years
  /\ pc = "start"
  /\ Fresh
  /\ NoCall

\* load_data and filter_rows are all that runs
SpecSel == SelInit /\ [][Load]_vars

----------------------------------------------------------------------------
(* process_results on its own: one field of every kind, on every value      *)

\* the longest text drawn character by character
MaxTextLen == 3

\* every text of at most n characters of the alphabet
Texts(alphabet, n) == UNION {[1..m -> alphabet] : m \in 0..n}

\* the characters of the short texts: digits, the letters of "one", "no" and
\* "on", an upper-case letter, white space
TextAlphabet == {"1", "0", "o", "n", "e", "Y", " "}

\* longer texts a reply holds for a field
LongTexts ==
  {
     <<"y", "e", "s">>, <<"t", "r", "u", "e">>, <<"F", "a", "l", "s", "e">>,
     <<"n", "a", "n">>, <<"2", "0", "2", "5">>, <<"t", "h", "r", "e", "e">>,
     <<" ", "N", "i", "n", "e", "t", "y", " ">>, <<"T", "b", "d">>,
     <<"t", "w", "o", " ", "o", "r", " ", "3">>,
     <<"2", "0", "2", "5", "-", "0", "1", "-", "0", "1">>,
     <<"2", "0", "2", "5", "-", "1", "3", "-", "0", "1">>,
     <<"9", " ", "J", "u", "n", "e">>, <<"s", "o", "o", "n">>,
     <<"3", "1", "/", "1", "2", "/", "9", "9">>
  }

\* texts in the shapes the regex rewrites and the weekday fallback look for,
\* with days and months that exist and that do not
DateTexts ==
  UNION {
    {day \o <<"t", "h", " ", "o", "f", " ">> \o month \o <<",", " ">> \o year,
     day \o <<".">> \o month \o <<".">> \o year,
     day \o <<" ">> \o month \o <<",", " ">> \o year,
     day \o <<" ">> \o month \o <<" ">> \o year,
     <<"T", "u", "e", " ">> \o day \o <<" ">> \o month \o <<" ">> \o year} :
      day \in {<<"9">>, <<"3", "2">>},
      month \in {<<"J", "u", "n", "e">>, <<"J", "u", "n">>, <<"F", "o", "o">>},
      year \in {<<"2", "0", "2", "5">>}}

\* the values a reply holds for a field
FieldValues ==
  {PyStr(text) : text \in Texts(TextAlphabet, MaxTextLen) \cup LongTexts \cup DateTexts}
    \cup {PyNone, PyNaN, PyInt(<<"0">>), PyInt(<<"5">>), PyFloat(<<"1", ".", "5">>),
          PyBool(TRUE), PyBool(FALSE), PyList(<<>>), PyList(<<PyNone>>),
          PyList(<<PyInt(<<"1">>)>>), PyList(<<PyInt(<<"1">>), PyInt(<<"2">>)>>),
          PyDict(<<>>), PyDict(<<Entry(<<"a">>, PyInt(<<"1">>))>>)}

ColUniversity == <<"U", "n", "i", "v", "e", "r", "s", "i", "t", "y", "_", "C", "N">>

\* one field of each kind: date, quantity, category, text
FieldKeys == {ColDeadline, ColPlaces, ColGIS, ColUniversity}

NormInit ==
  /\ results \in {PyDict(<<Entry(key, value)>>) : key \in FieldKeys, value \in FieldValues}
  /\ year_now \in Years
  /\ pc = "call"
  /\ stored = NoSheet
  /\ batch_size = 1
  /\ Fresh
  /\ processed = <<>>
  /\ output = <<>>
  /\ parsed = <<>>

\* DataFormatter.process_results(results)
Normalize ==
  /\ pc = "call"
  /\ \E r \in {process_results(results, year_now)} :
       /\ processed' = <<r>>
       /\ pc' = IF r.raised THEN "done" ELSE "again"
  /\ UNCHANGED <<run_vars_but_pc, year_now, results, output, parsed>>

\* DataFormatter.process_results of what the first call returned
NormalizeAgain ==
  /\ pc = "again"
  /\ processed' = Append(processed, process_results(processed[1].dict, year_now))
  /\ pc' = "done"
  /\ UNCHANGED <<run_vars_but_pc, year_now, results, output, parsed>>

NormNext == Normalize \/ NormalizeAgain

SpecNorm == NormInit /\ [][NormNext]_vars

----------------------------------------------------------------------------
(* _parse_model_output on its own: every short reply, and the replies of    *)
(* the runs                                                                 *)

\* the longest reply drawn character by character
MaxReplyLen == 5

\* the characters of the short replies
ReplyAlphabet == {"{", "}", "[", "]", "\"", "1"}

ReplyWrapped ==
  <<"O", "K", ":", " ", "{", "\"", "G", "I", "S", "\"", ":", " ", "1", "}", " ", "d",
    "o", "n", "e">>

ParseInputs == Texts(ReplyAlphabet, MaxReplyLen) \cup Replies \cup {ReplyWrapped}

ParseInit ==
  /\ output \in ParseInputs
  /\ year_now \in Years
  /\ pc = "call"
  /\ stored = NoSheet
  /\ batch_size = 1
  /\ Fresh
  /\ results = PyNone
  /\ processed = <<>>
  /\ parsed = <<>>

\* LlmProcessor._parse_model_output(output)
Parse ==
  /\ pc = "call"
  /\ parsed' = <<parse_model_output(output)>>
  /\ pc' = "done"
  /\ UNCHANGED <<run_vars_but_pc, year_now, results, processed, output>>

SpecParse == ParseInit /\ [][Parse]_vars

----------------------------------------------------------------------------
(* Properties of the run                                                    *)

LLM == <<"L", "L", "M">>

\* the columns the extraction fills in the sheets of the runs
ExtractionColumns == {ColDeadline, ColPlaces, ColGIS}

HasColumn(sheet, name) == \E k \in DOMAIN sheet.header : sheet.header[k] = PyStr(name)

\* the cell of data row r of a sheet in the column headed name; empty when no
\* column has that header
Under(sheet, r, name) ==
  IF HasColumn(sheet, name)
  THEN sheet.cells[r][CHOOSE k \in DOMAIN sheet.header : sheet.header[k] = PyStr(name)]
  ELSE PyNone

\* a cell that holds something
Filled(v) == v.t # "none" /\ ~(v.t = "str" /\ v.s = <<>>)

\* the sheet in the file has the four control columns by name
FullHeader == \A name \in {ColSource, ColNotes, ColVerifier, ColError} : HasColumn(stored, name)

\* the log holds the entry e for row idx of the frame
Happened(e, idx) == \E k \in DOMAIN log : log[k] = Ev(e, idx)

\* the rows of the selection the loop did not skip
Entered == {filtered[k] : k \in {j \in DOMAIN filtered : ~Happened("skip", filtered[j])}}

(* C1: when the fetcher returns a failure marker for a selected row, the row
   ends the pass as a Failure: its Error cell holds a message, its Verifier is
   not "LLM" and none of its extraction cells is modified (they were empty).
   Stated for the runs with all control columns in the sheet and no failing
   save. *)
C1_FetchFailureMarksFailure ==
  (pc = "done" /\ save_failures = 0 /\ FullHeader) =>
    \A r \in DOMAIN stored.cells :
      Happened("fetch_failed", r - 1) =>
        /\ Filled(Under(stored, r, ColError))
        /\ Under(stored, r, ColVerifier) # PyStr(LLM)
        /\ \A c \in ExtractionColumns : Under(stored, r, c) = PyNone

(* C2: every selected row that is not skipped ends the pass with its Verifier
   or its Error set: an exception in fetching, calling the model, parsing,
   normalizing or writing becomes an Error message on the row.  Stated for
   the runs with all control columns in the sheet and no failing save. *)
C2_NoRowLeftUnmarked ==
  (pc = "done" /\ save_failures = 0 /\ FullHeader) =>
    \A idx \in Entered :
      \/ Filled(Under(stored, idx + 1, ColVerifier))
      \/ Filled(Under(stored, idx + 1, ColError))

(* C3: for every batch size, a row is written at most once in a pass: a
   success write or an error write, never both.  Stated for the runs with no
   failing save. *)
C3_RowWrittenOnce ==
  save_failures = 0 =>
    \A k \in DOMAIN log, l \in DOMAIN log :
      (k < l /\ log[k].e \in {"success", "marked"} /\ log[l].e \in {"success", "marked"})
        => log[k].idx # log[l].idx

(* C5: a row written as Success or Failure in a run, every save of which
   succeeded, is not selected by the run that follows at once, also when a
   control column was missing from the sheet. *)
C5_WrittenRowsNotReselected ==
  (pc = "done" /\ save_failures = 0) =>
    \A idx \in Range(filter_rows(load_data(stored)).filtered) :
      ~Happened("success", idx) /\ ~Happened("marked", idx)

\* the rows the loop is through with and did not skip: they went through the
\* cycle of fetching and calling the model, or raised in it
Processed == {filtered[k] : k \in {j \in 1..i : ~Happened("skip", filtered[j])}}

\* the rows the run paused after
Paused == {idx \in Range(filtered) : Happened("pause", idx)}

(* C12: with a batch size N of at least 1, between two rows and at the end of
   the run the number of pauses made so far is the number of processed rows
   (successful or failed, the skipped ones not counted) divided by N, rounded
   down.  Stated for the runs with all control columns in the sheet and no
   failing save. *)
C12_PausesCountProcessed ==
  (pc \in {"row", "done"} /\ batch_size >= 1 /\ save_failures = 0 /\ FullHeader) =>
    Cardinality(Paused) = Cardinality(Processed) \div batch_size

\* the rows the loop is through with that a success or an error write was
\* made for
Written ==
  {filtered[k] : k \in {j \in 1..i : \/ Happened("success", filtered[j])
                                     \/ Happened("marked", filtered[j])}}

\* the selected rows the loop has not come to yet
NotYetProcessed ==
  {filtered[k] : k \in {j \in DOMAIN filtered :
                          j > i + 1 \/ (j = i + 1 /\ pc \in {"row", "done"})}}

\* a row of the sheet in the file that holds nothing but what it was
\* selected with: its Source and its Notes
Untouched(r) ==
  \A c \in DOMAIN stored.cells[r] :
    Filled(stored.cells[r][c]) => stored.header[c] \in {PyStr(ColSource), PyStr(ColNotes)}

(* C13: at every point of the run after the selection, the file holds every
   cell written for the rows completed before the row in flight (the file and
   the workbook in memory agree on them), and the rows not yet processed are
   in the file as they were. *)
C13_PerRowCommit ==
  pc # "start" =>
    /\ \A idx \in Written : stored.cells[idx + 1] = workbook.cells[idx + 1]
    /\ \A idx \in NotYetProcessed : Untouched(idx + 1)

\* the position of row idx in the selection
Pos(idx) == CHOOSE k \in DOMAIN filtered : filtered[k] = idx

FetchEvents == {"fetched", "fetch_failed"}

WriteEvents == {"success", "marked", "write_failed"}

\* what is logged follows the order of the selection, a row is fetched at most
\* once, and what is written for a row is written before a later row is fetched
InSelectionOrder ==
  /\ \A k \in DOMAIN log, l \in DOMAIN log :
       k < l => Pos(log[k].idx) <= Pos(log[l].idx)
  /\ \A k \in DOMAIN log, l \in DOMAIN log :
       (k < l /\ log[k].e \in FetchEvents /\ log[l].e \in FetchEvents)
         => log[k].idx # log[l].idx
  /\ \A k \in DOMAIN log, l \in DOMAIN log :
       (log[k].e \in WriteEvents /\ log[l].e \in FetchEvents
          /\ Pos(log[k].idx) < Pos(log[l].idx)) => k < l

\* how far the statement run is at is from the end of the loop body
StepsLeftInRow ==
  CASE pc = "row" -> 5
    [] pc = "fetch" -> 4
    [] pc = "llm" -> 3
    [] pc = "write" -> 2
    [] pc = "throttle" -> 1
    [] OTHER -> 0

\* a bound on the steps run still takes: six for every row to come, and the
\* rest of the row at hand
StepsLeft == 6 * (Len(filtered) - i) + StepsLeftInRow

\* run is at the head of the loop with rows to come or none, or inside the
\* body for a row of the selection: the places a statement is there to run
AtStatement ==
  /\ i <= Len(filtered)
  /\ pc \in {"fetch", "llm", "write", "throttle", "except"} => i < Len(filtered)

(* C15: in a run the selected rows are processed in the order of the
   selection, each is fetched at most once, the write for a row comes before
   the fetch of the next one, and the run ends after the last selected row:
   every step after the selection brings it nearer to the end of the loop,
   inside the loop it is always at a statement of a selected row, and it is
   over only when it has gone through every selected row. *)
C15_OrderedAndTerminates ==
  /\ [](/\ InSelectionOrder
        /\ AtStatement
        /\ StepsLeft >= 0
        /\ pc = "done" => i = Len(filtered))
  /\ [][pc # "start" => StepsLeft' < StepsLeft]_vars

\* a run over two selected rows that fetched and wrote both and is over
C15_Witness ==
  /\ pc = "done"
  /\ Len(filtered) = 2
  /\ \A k \in DOMAIN filtered :
       /\ \E e \in FetchEvents : Happened(e, filtered[k])
       /\ Happened("success", filtered[k])

\* the columns a success write is to leave alone
KeptColumns == {ColError, ColSource, ColNotes}

(* C16: the success write of a row (the call of write_results with the parsed
   reply) leaves the Error, the Source and the Notes cell of every row of the
   workbook as they were, whatever keys the reply holds; so an Error cell is
   only ever filled by the write of the except clause. *)
C16_SuccessWriteKeepsControlCells ==
  [][pc = "write" =>
       \A r \in DOMAIN workbook.cells : \A name \in KeptColumns :
         Under(workbook', r, name) = Under(workbook, r, name)]_vars

----------------------------------------------------------------------------
(* Properties of filter_rows                                                *)

\* the value of row r of a frame in the column name; missing when the frame
\* has no such column
ValueIn(frame, r, name) ==
  IF \E k \in DOMAIN frame.columns : frame.columns[k] = name
  THEN frame.rows[r][CHOOSE k \in DOMAIN frame.columns : frame.columns[k] = name]
  ELSE PyNaN

\* a value that is missing or the empty text
Empty(v) == v.t \in {"none", "nan"} \/ (v.t = "str" /\ v.s = <<>>)

\* the eligibility of row r of the frame as read from the file
Eligible(frame, r) ==
  /\ \/ Empty(ValueIn(frame, r, ColNotes))
     \/ ValueIn(frame, r, ColNotes).t = "str" /\ is_url(ValueIn(frame, r, ColNotes).s)
  /\ Empty(ValueIn(frame, r, ColVerifier))
  /\ Empty(ValueIn(frame, r, ColError))

(* C4: filter_rows returns, in the order of the table, exactly the rows whose
   Notes is empty or a URL, whose Verifier is empty and whose Error is empty,
   a missing column counting as empty; so no row with a Verifier is selected. *)
C4_SelectsEligibleRows ==
  pc # "start" =>
    /\ \A k \in DOMAIN filtered, l \in DOMAIN filtered : k < l => filtered[k] < filtered[l]
    /\ Range(filtered) =
         {r - 1 : r \in {q \in DOMAIN load_data(stored).rows :
                           Eligible(load_data(stored), q)}}
    /\ \A idx \in Range(filtered) : ~Filled(Under(stored, idx + 1, ColVerifier))

\* a table of two rows: the first has a URL in Notes and a Verifier, the
\* second an Error-free, Verifier-free row, which alone is selected
C4_Witness ==
  /\ pc # "start"
  /\ Len(stored.cells) = 2
  /\ FullHeader
  /\ Under(stored, 1, ColVerifier) = PyStr(LLM)
  /\ Under(stored, 1, ColNotes) = PyStr(NoteUrlText)
  /\ Under(stored, 2, ColNotes) = PyStr(NoteUrlText)
  /\ filtered = <<1>>

\* the rows whose reply was parsed to the empty mapping and written: the row
\* at hand once write_results has returned, or the row the loop just left
WrittenEmpty ==
  IF structured_info # PyDict(<<>>) THEN {}
  ELSE {idx \in (IF pc = "throttle" THEN {Idx}
                 ELSE IF pc \in {"row", "done"} /\ i > 0 THEN {filtered[i]}
                 ELSE {}) : Happened("success", idx)}

(* C17: a row whose reply does not decode as JSON is not marked as a failure:
   the empty mapping is written for it, so its extraction cells stay as they
   were (empty), its Error stays empty, its Verifier is "LLM", and the run
   that follows does not select it.  Stated for the runs with all control
   columns in the sheet, no failing save and a batch size other than 0. *)
C17_UndecodedReplyStampsRow ==
  (save_failures = 0 /\ FullHeader /\ batch_size # 0) =>
    \A idx \in WrittenEmpty :
      /\ Under(stored, idx + 1, ColVerifier) = PyStr(LLM)
      /\ ~Filled(Under(stored, idx + 1, ColError))
      /\ \A c \in ExtractionColumns : Under(stored, idx + 1, c) = PyNone
      /\ pc = "done" => idx \notin Range(filter_rows(load_data(stored)).filtered)

\* a run that is over whose last row got a reply that does not decode
C17_Witness ==
  /\ pc = "done"
  /\ save_failures = 0
  /\ FullHeader
  /\ batch_size # 0
  /\ WrittenEmpty # {}
  /\ \A idx \in WrittenEmpty : Under(stored, idx + 1, ColVerifier) = PyStr(LLM)

----------------------------------------------------------------------------
(* Properties of the run that rest on the selection                        *)

\* the Source of row idx of the frame is missing or empty
NoSource(idx) == Empty(CellOf(df, idx + 1, ColSource))

\* row idx of the frame has no usable URL: its Notes holds none, and its
\* Source is empty or a text the URL rule does not match
NoUsableUrl(idx) ==
  /\ LET notes == CellOf(df, idx + 1, ColNotes)
     IN ~(notes.t = "str" /\ is_url(notes.s))
  /\ \/ NoSource(idx)
     \/ LET source == CellOf(df, idx + 1, ColSource)
        IN source.t = "str" /\ ~is_url(source.s)

\* nothing but the skip is logged for row idx: no fetch, no call of the
\* model, no write
OnlySkipped(idx) == \A k \in DOMAIN log : log[k].idx = idx => log[k].e = "skip"

(* C14: a selected row without a usable URL (Notes holds no URL, and Source is
   empty or a text the URL rule does not match) is skipped: nothing is
   fetched, the model is not called and nothing is written for it, and the
   run that follows selects it again. *)
C14_RowWithoutUrlSkipped ==
  \A idx \in Range(filtered) :
    NoUsableUrl(idx) =>
      /\ OnlySkipped(idx)
      /\ pc = "done" => idx \in Range(filter_rows(load_data(stored)).filtered)

----------------------------------------------------------------------------
(* Properties of process_results                                            *)

\* the key and the value of the one field normalized
FieldKey == KeyOf(results.items[1])

FieldValue == ValOf(results.items[1])

\* the text process_results returned for the field
FieldOutput == ValOf(processed[1].dict.items[1]).s

(* C6, as stated: the normalized value of a quantity field is the empty text
   or a text of decimal digits. *)
C6_QuantityDigitsOnly ==
  (processed # <<>> /\ FieldKey \in number_fields) =>
    /\ ~processed[1].raised
    /\ FieldOutput = <<>> \/ IsDigitStr(FieldOutput)

(* C6, amended: the normalized value of a quantity field is the empty text, a
   text of decimal digits, or, for a text that is neither digits nor a number
   word, that text itself with the white space around it removed. *)
C6_QuantityDigitsOrInput ==
  (processed # <<>> /\ FieldKey \in number_fields) =>
    /\ ~processed[1].raised
    /\ \/ FieldOutput = <<>>
       \/ IsDigitStr(FieldOutput)
       \/ /\ FieldValue.t = "str"
          /\ FieldOutput = Strip(FieldValue.s)
          /\ \A p \in english_to_number : p[1] # Lower(FieldOutput)

\* the text "on" is no number: it comes back as it is
C6_Witness ==
  /\ processed # <<>>
  /\ FieldKey \in number_fields
  /\ FieldValue = PyStr(<<"o", "n", " ">>)
  /\ FieldOutput = <<"o", "n">>

(* C7: the normalized value of a category field is "1", the empty text or a
   text of digits, whenever normalize_value returns one; it returns one for
   every value but a list, whose missing-value test raises. *)
C7_CategoryClosure ==
  (processed # <<>> /\ FieldKey \in category_fields) =>
    IF processed[1].raised
    THEN FieldValue.t = "list"
    ELSE FieldOutput = <<"1">> \/ FieldOutput = <<>> \/ IsDigitStr(FieldOutput)

\* a text that is neither a yes nor a no nor digits becomes "1"
C7_Witness ==
  /\ processed # <<>>
  /\ FieldKey \in category_fields
  /\ FieldValue = PyStr(<<"o", "n", "e">>)
  /\ FieldOutput = <<"1">>

(* C8: a date text that parses under none of the formats, after the rewrites
   and the weekday fallback, is returned as it was given, trimmed. *)
C8_UnparsedDateUnchanged ==
  (/\ processed # <<>>
   /\ FieldKey \in date_fields
   /\ FieldValue.t = "str"
   /\ FieldValue.s # <<>>
   /\ ~ParseDate(Rewritten(Strip(FieldValue.s)), year_now).ok) =>
    /\ ~processed[1].raised
    /\ FieldOutput = Strip(FieldValue.s)

\* the text the second call of process_results returned for the field
FieldOutputAgain == ValOf(processed[2].dict.items[1]).s

CanonicalDate == <<"2", "0", "2", "5", "-", "0", "1", "-", "0", "1">>

(* C11: normalizing a normalized field again gives the same value, for a field
   of every kind and every value the first call returns a result for; the
   canonical date "2025-01-01" and the category value "1" come back as they
   are from the first call already. *)
C11_NormalizationIdempotent ==
  /\ Len(processed) = 2 =>
       /\ ~processed[2].raised
       /\ processed[2].dict = processed[1].dict
  /\ (processed # <<>> /\ FieldKey \in date_fields /\ FieldValue = PyStr(CanonicalDate)) =>
       ~processed[1].raised /\ FieldOutput = CanonicalDate
  /\ (processed # <<>> /\ FieldKey \in category_fields /\ FieldValue = PyStr(<<"1">>)) =>
       ~processed[1].raised /\ FieldOutput = <<"1">>

\* "9th of June, 2025" becomes "2025-06-09", and that stays as it is
C11_Witness ==
  /\ Len(processed) = 2
  /\ FieldKey \in date_fields
  /\ FieldValue = PyStr(<<"9", "t", "h", " ", "o", "f", " ", "J", "u", "n", "e", ",", " ",
                          "2", "0", "2", "5">>)
  /\ FieldOutput = <<"2", "0", "2", "5", "-", "0", "6", "-", "0", "9">>
  /\ FieldOutputAgain = FieldOutput

----------------------------------------------------------------------------
(* Properties of _parse_model_output                                        *)

\* the reply has a '{' with a '}' somewhere after it
HasBraces == \E a \in DOMAIN output, b \in DOMAIN output : a < b /\ output[a] = "{" /\ output[b] = "}"

\* the reply from its first '{' to its last '}'
Braced ==
  SubSeq(output,
         CHOOSE a \in DOMAIN output : output[a] = "{" /\ \A j \in 1..(a - 1) : output[j] # "{",
         CHOOSE b \in DOMAIN output : output[b] = "}" /\ \A j \in (b + 1)..Len(output) : output[j] # "}")

\* what decoding a text gives the caller: the value, or the empty mapping
Decoded(text) == IF json_loads(text).ok THEN json_loads(text).val ELSE PyDict(<<>>)

(* C9, as stated: when the braced part of the reply does not decode, or the
   reply has no braces, the parser returns what the whole reply decodes to,
   and the empty mapping only when that fails too. *)
C9_WholeReplyRetried ==
  (parsed # <<>> /\ (~HasBraces \/ ~json_loads(Braced).ok)) => parsed[1] = Decoded(output)

(* C9, amended: the parser decodes the whole reply only when the reply has no
   '{' with a '}' after it; when the braced part is there and does not decode
   it returns the empty mapping without trying the whole reply. *)
C9_WholeReplyOnlyWithoutBraces ==
  parsed # <<>> =>
    /\ ~HasBraces => parsed[1] = Decoded(output)
    /\ HasBraces => parsed[1] = Decoded(Braced)

\* the reply "{1}" in quotes is a JSON string, its braced part is no JSON:
\* the parser returns the empty mapping
C9_Witness ==
  /\ parsed # <<>>
  /\ output = <<"\"", "{", "1", "}", "\"">>
  /\ json_loads(output).ok
  /\ parsed[1] = PyDict(<<>>)

(* C10: for every reply the parser returns a mapping. *)
C10_ReturnsMapping == parsed # <<>> => parsed[1].t = "dict"

============================================================================
